---- MODULE Spec2Model ----
(***************************************************************************)
(* Model of src/session/session-model.ts: the in-memory session store, its *)
(* debounced persistence to the relational (sqlite) and key/value (redis)  *)
(* backends, remove, the expiration sweeper and restore.                   *)
(*                                                                         *)
(* Every step of the single-threaded event loop is one action: a public    *)
(* call up to its first await, a timer callback up to its first await, or  *)
(* the settling of one awaited backend call together with the code that    *)
(* runs after that await.  Backend calls settle in any order, succeed or   *)
(* fail, or never settle.                                                  *)
(***************************************************************************)
EXTENDS Integers, Sequences, FiniteSets, TLC

\* ---------------------------------------------------------------- bounds
MaxUpserts  == 2
MaxRemoves  == 1
MaxAdvances == 2

\* ------------------------------------------------------ program constants
PersistDelay  == 1000
SweepInterval == 60000

AllIds    == {"a", "b"}
Ids       == {"a"}
Namespace == "ns"

\* time-to-live a caller gives a record, and the amounts by which the clock moves
TTLs  == {PersistDelay, 2 * SweepInterval}
Steps == {PersistDelay \div 2, SweepInterval}

VARIABLES
    useDB,            \* process.env.USE_SESSION_DB
    useRedis,         \* process.env.USE_REDIS
    now,              \* Date.now()
    sessions,         \* the in-memory sessions object
    persistTimeouts,  \* id -> timeout handle (0: no key)
    timers,           \* timeouts set and neither fired nor cleared
    nextSweep,        \* earliest time of the next sweeper tick
    db,               \* sqlite table sessions: session_id -> value
    redis,            \* redis: key -> value and expiry
    flushes,          \* runs of persist() that have not returned
    removes,          \* calls of remove() that have not resolved
    calls,            \* per id: first and last upsert of the current burst,
                      \* whether remove was called in the last one's quiet
                      \* period, and the timeouts that fired
    nUpserts,
    nRemoves,
    advances,
    rst               \* the run of restore()

vars == << useDB, useRedis, now, sessions, persistTimeouts, timers, nextSweep,
           db, redis, flushes, removes, calls, nUpserts, nRemoves, advances,
           rst >>

\* ------------------------------------------------------------ data model
Rec(id, e, v) == [id |-> id, expiresAt |-> e, v |-> v]

\* sessions[id] of a key that is not in the object
Absent == Rec("", 0, 0)

Tok(k, s, n) == [k |-> k, s |-> s, n |-> n]

\* JSON.stringify(session): the text, token by token
JSON_stringify(session) ==
    << Tok("{", "", 0),
       Tok("id", session.id, 0),
       Tok("expiresAt", "", session.expiresAt),
       Tok("v", "", session.v),
       Tok("}", "", 0) >>

NullText == << Tok("null", "", 0) >>

\* JSON.parse(text): a SyntaxError, the value null, or the object
JSON_parse(text) ==
    IF text = NullText
    THEN [ok |-> TRUE, null |-> TRUE, val |-> Absent]
    ELSE IF /\ Len(text) = 5
            /\ text[1] = Tok("{", "", 0)
            /\ text[2].k = "id"        /\ text[2].n = 0
            /\ text[3].k = "expiresAt" /\ text[3].s = ""
            /\ text[4].k = "v"         /\ text[4].s = ""
            /\ text[5] = Tok("}", "", 0)
         THEN [ok |-> TRUE, null |-> FALSE,
               val |-> Rec(text[2].s, text[3].n, text[4].n)]
         ELSE [ok |-> FALSE, null |-> FALSE, val |-> Absent]

buildRedisKey(sessionId) == << Namespace, "session", sessionId >>

\* `${REDIS_NAMESPACE}:session:*`
getRedisKeyMatcher(key) == key[1] = Namespace /\ key[2] = "session"

\* the keys of the redis instance: the session keys of this namespace and a
\* key of another one
KeySpace == {buildRedisKey(id) : id \in AllIds} \cup {<< "other", "session", "a" >>}

NoEntry == [value |-> << >>, exp |-> 0]

findById(id) == sessions[id]

remainingTTL(session, t) == session.expiresAt - t

\* clearTimeout that cancels nothing
clearTimeoutNone(ts, h) == ts

clearTimeout(ts, h) == {t \in ts : t.h # h}

\* line 138 with < for <=
abortExpiredStrict(ttl) == ttl < 0

\* line 138: if (remainingTTL <= 0) return
abortExpired(ttl) == ttl <= 0

\* the sweeper's filter with >= for >
pickByInclusive(ss, t) ==
    [id \in DOMAIN ss |->
        IF ss[id] # Absent /\ remainingTTL(ss[id], t) >= 0 THEN ss[id] ELSE Absent]

pickBy(ss, t) ==
    [id \in DOMAIN ss |->
        IF ss[id] # Absent /\ remainingTTL(ss[id], t) > 0 THEN ss[id] ELSE Absent]

\* line 112 with the test of the environment left out
anyBackendUnguarded == TRUE

\* lines 112 and 125: USE_SESSION_DB || USE_REDIS
anyBackend == useDB \/ useRedis

\* ------------------------------------------------------------------ Init
\* gone: remove was the last call on the id;
\* fired: the timeouts of the current burst that have fired; h, outcome: the
\* last timeout of the id that fired and what persist() did then
NoCall == [first |-> 0, last |-> 0, removed |-> FALSE, gone |-> FALSE,
           fired |-> 0, h |-> 0, outcome |-> ""]

\* restore() not called; pages is what the redis SCAN cursor will walk through
IdleRestore == [pc |-> "idle", cursor |-> 0, keys |-> << >>, pages |-> << >>]

Init ==
    /\ useDB \in BOOLEAN
    /\ useRedis \in BOOLEAN
    /\ now = 0
    /\ sessions = [id \in AllIds |-> Absent]
    /\ persistTimeouts = [id \in AllIds |-> 0]
    /\ timers = {}
    /\ nextSweep = SweepInterval
    /\ db = [id \in AllIds |-> << >>]
    /\ redis = [k \in KeySpace |-> NoEntry]
    /\ flushes = {}
    /\ removes = {}
    /\ calls = [id \in AllIds |-> NoCall]
    /\ nUpserts = 0
    /\ nRemoves = 0
    /\ advances = 0
    /\ rst = IdleRestore

\* ---------------------------------------------------------------- upsert
\* upsert that leaves the store alone while a write of the id is pending
upsertWhenIdle(session, h) ==
    /\ sessions' = IF persistTimeouts[session.id] # 0 THEN sessions
                   ELSE [sessions EXCEPT ![session.id] = session]
    /\ IF anyBackend
       THEN /\ timers' =
                  (IF persistTimeouts[session.id] # 0
                   THEN clearTimeout(timers, persistTimeouts[session.id])
                   ELSE timers)
                  \cup {[h |-> h, id |-> session.id, set |-> now,
                         due |-> now + PersistDelay]}
            /\ persistTimeouts' = [persistTimeouts EXCEPT ![session.id] = h]
       ELSE UNCHANGED << timers, persistTimeouts >>

\* lines 108-119.  The handle of the new timeout is the number of the call;
\* set is the time of the call.
upsert(session, h) ==
    /\ sessions' = [sessions EXCEPT ![session.id] = session]
    /\ IF anyBackend
       THEN /\ timers' =
                  (IF persistTimeouts[session.id] # 0
                   THEN clearTimeout(timers, persistTimeouts[session.id])
                   ELSE timers)
                  \cup {[h |-> h, id |-> session.id, set |-> now,
                         due |-> now + PersistDelay]}
            /\ persistTimeouts' = [persistTimeouts EXCEPT ![session.id] = h]
       ELSE UNCHANGED << timers, persistTimeouts >>

\* The quiet period of the last upsert of id is running: less than the quiet
\* period has passed since that call.
InBurst(id) ==
    \E t \in timers : t.id = id /\ t.h = calls[id].last /\ now - t.set < PersistDelay

Upsert(id, ttl) ==
    /\ nUpserts < MaxUpserts
    /\ LET h == nUpserts + 1
           session == Rec(id, now + ttl, h)
       IN /\ upsert(session, h)
          /\ calls' = [calls EXCEPT ![id] =
                         [@ EXCEPT !.first = IF InBurst(id) THEN @ ELSE h,
                                   !.last = h,
                                   !.removed = FALSE,
                                   !.gone = FALSE,
                                   !.fired = IF InBurst(id) THEN @ ELSE 0]]
    /\ nUpserts' = nUpserts + 1
    /\ UNCHANGED << useDB, useRedis, now, nextSweep, db, redis, flushes,
                    removes, nRemoves, advances, rst >>

\* --------------------------------------------------------------- persist
\* a run of persist() that is going to write: what it read, and for each
\* backend whether its write is not issued, awaited, done or failed
NewFlush(t, session) ==
    [h |-> t.h, id |-> t.id, session |-> session,
     ttl |-> remainingTTL(session, now),
     db |-> IF useDB THEN "pending" ELSE "none",
     kv |-> IF useDB THEN "none" ELSE "pending",
     result |-> "pending"]

\* persist without line 128: the handle stays in persistTimeouts
persistKeepsHandle(t) ==
    IF ~anyBackend
    THEN UNCHANGED << persistTimeouts, flushes >>
    ELSE /\ persistTimeouts' = persistTimeouts
         /\ LET session == sessions[t.id]
            IN IF session = Absent
               THEN flushes' = flushes
               ELSE IF abortExpired(remainingTTL(session, now))
               THEN flushes' = flushes
               ELSE flushes' = flushes \cup {NewFlush(t, session)}

\* lines 124-173 up to the first await: the timeout t fires and runs persist(t.id)
persist(t) ==
    IF ~anyBackend
    THEN UNCHANGED << persistTimeouts, flushes >>
    ELSE /\ persistTimeouts' = [persistTimeouts EXCEPT ![t.id] = 0]
         /\ LET session == sessions[t.id]
            IN IF session = Absent
               THEN flushes' = flushes
               ELSE IF abortExpired(remainingTTL(session, now))
               THEN flushes' = flushes
               ELSE flushes' = flushes \cup {NewFlush(t, session)}

TimerFires(t) ==
    /\ t \in timers
    /\ now >= t.due
    /\ timers' = timers \ {t}
    /\ persist(t)
    /\ calls' = [calls EXCEPT ![t.id] =
                    [@ EXCEPT !.fired = IF t.h >= calls[t.id].first THEN @ + 1 ELSE @,
                              !.h = t.h,
                              !.outcome =
                                  IF sessions[t.id] = Absent THEN "absent"
                                  ELSE IF \E f \in flushes' : f.h = t.h THEN "write"
                                  ELSE "expired"]]
    /\ UNCHANGED << useDB, useRedis, now, sessions, nextSweep, db, redis,
                    removes, nUpserts, nRemoves, advances, rst >>

\* a run that has returned is dropped; one that threw stays
Running(fs) == {f \in fs : f.result # "resolved"}

\* lines 164-173: after the relational part, the redis write is issued (with
\* the session and the remainingTTL read before the await), or persist returns
persistRedis(f) ==
    IF useRedis THEN [f EXCEPT !.kv = "pending"]
                ELSE [f EXCEPT !.result = "resolved"]

\* db.run rejected and nothing catches it
persistDbRejectedThrows(f) == [f EXCEPT !.db = "failed", !.result = "rejected"]

\* lines 154-161: db.run rejected; the catch logs and persist goes on
persistDbRejected(f) == persistRedis([f EXCEPT !.db = "failed"])

\* lines 174-181: the SET rejected; the catch logs and persist returns
persistRedisRejected(f) == [f EXCEPT !.kv = "failed", !.result = "resolved"]

\* lines 142-173: the awaited db.run of the run f settles
PersistDbSettles(f, ok) ==
    /\ f \in flushes
    /\ f.db = "pending"
    /\ db' = IF ok THEN [db EXCEPT ![f.id] = JSON_stringify(f.session)] ELSE db
    /\ flushes' = Running((flushes \ {f})
                     \cup {IF ok THEN persistRedis([f EXCEPT !.db = "ok"])
                                 ELSE persistDbRejected(f)})
    /\ UNCHANGED << useDB, useRedis, now, sessions, persistTimeouts, timers,
                    nextSweep, redis, removes, calls, nUpserts, nRemoves,
                    advances, rst >>

\* lines 167-181: the awaited SET key value PX remainingTTL of the run f settles
PersistRedisSettles(f, ok) ==
    /\ f \in flushes
    /\ f.kv = "pending"
    /\ redis' = IF ok
                THEN [redis EXCEPT ![buildRedisKey(f.session.id)] =
                         [value |-> JSON_stringify(f.session), exp |-> now + f.ttl]]
                ELSE redis
    /\ flushes' = Running((flushes \ {f})
                     \cup {IF ok THEN [f EXCEPT !.kv = "ok", !.result = "resolved"]
                                 ELSE persistRedisRejected(f)})
    /\ UNCHANGED << useDB, useRedis, now, sessions, persistTimeouts, timers,
                    nextSweep, db, removes, calls, nUpserts, nRemoves,
                    advances, rst >>

\* ---------------------------------------------------------------- remove
\* remove with the delete from memory placed after the awaited backend deletes
removeDeferred(id, n) ==
    /\ sessions' = IF anyBackend THEN sessions ELSE [sessions EXCEPT ![id] = Absent]
    /\ removes' = Running(removes \cup
          {[n |-> n, id |-> id,
            db |-> IF useDB THEN "pending" ELSE "none",
            kv |-> IF ~useDB /\ useRedis THEN "pending" ELSE "none",
            result |-> IF anyBackend THEN "pending" ELSE "resolved"]})

\* lines 188-206 up to the first await
remove(id, n) ==
    /\ sessions' = [sessions EXCEPT ![id] = Absent]
    /\ removes' = Running(removes \cup
          {[n |-> n, id |-> id,
            db |-> IF useDB THEN "pending" ELSE "none",
            kv |-> IF ~useDB /\ useRedis THEN "pending" ELSE "none",
            result |-> IF anyBackend THEN "pending" ELSE "resolved"]})

Remove(id) ==
    /\ nRemoves < MaxRemoves
    /\ remove(id, nRemoves + 1)
    /\ nRemoves' = nRemoves + 1
    /\ calls' = [calls EXCEPT ![id].removed = InBurst(id), ![id].gone = TRUE]
    /\ UNCHANGED << useDB, useRedis, now, persistTimeouts, timers, nextSweep,
                    db, redis, flushes, nUpserts, advances, rst >>

\* lines 193-199: the awaited db.run rejects and nothing catches it
removeDbRejected(r) == [r EXCEPT !.db = "failed", !.result = "rejected"]

\* lines 193-205: the awaited DELETE of the call r settles; then the redis
\* DEL is issued
RemoveDbSettles(r, ok) ==
    /\ r \in removes
    /\ r.db = "pending"
    /\ db' = IF ok THEN [db EXCEPT ![r.id] = << >>] ELSE db
    /\ removes' = Running((removes \ {r}) \cup
          {IF ok
           THEN [r EXCEPT !.db = "ok",
                          !.kv = IF useRedis THEN "pending" ELSE "none",
                          !.result = IF useRedis THEN "pending" ELSE "resolved"]
           ELSE removeDbRejected(r)})
    /\ UNCHANGED << useDB, useRedis, now, sessions, persistTimeouts, timers,
                    nextSweep, redis, flushes, calls, nUpserts, nRemoves,
                    advances, rst >>

\* line 204: the awaited DEL rejects and nothing catches it
removeRedisRejected(r) == [r EXCEPT !.kv = "failed", !.result = "rejected"]

\* line 204: the awaited DEL of the call r settles
RemoveRedisSettles(r, ok) ==
    /\ r \in removes
    /\ r.kv = "pending"
    /\ redis' = IF ok THEN [redis EXCEPT ![buildRedisKey(r.id)] = NoEntry]
                      ELSE redis
    /\ removes' = Running((removes \ {r}) \cup
          {IF ok THEN [r EXCEPT !.kv = "ok", !.result = "resolved"]
                 ELSE removeRedisRejected(r)})
    /\ UNCHANGED << useDB, useRedis, now, sessions, persistTimeouts, timers,
                    nextSweep, db, flushes, calls, nUpserts, nRemoves,
                    advances, rst >>

\* --------------------------------------------------------------- sweeper
\* lines 211-229: one tick of the setInterval callback
Sweep ==
    /\ now >= nextSweep
    /\ sessions' = pickBy(sessions, now)
    /\ nextSweep' = now + SweepInterval
    /\ UNCHANGED << useDB, useRedis, now, persistTimeouts, timers, db, redis,
                    flushes, removes, calls, nUpserts, nRemoves, advances, rst >>

\* ----------------------------------------------------------------- clock
Advance(d) ==
    /\ advances < MaxAdvances
    /\ now' = now + d
    /\ advances' = advances + 1
    /\ UNCHANGED << useDB, useRedis, sessions, persistTimeouts, timers,
                    nextSweep, db, redis, flushes, removes, calls, nUpserts,
                    nRemoves, rst >>

\* --------------------------------------------------------------- restore
\* the body of forEach keeping an entry that is already there
restoreOneKeepFirst(ss, text) ==
    IF text = << >>
    THEN ss
    ELSE LET parsed == JSON_parse(text)
         IN IF ~parsed.ok \/ parsed.null \/ ss[parsed.val.id] # Absent
            THEN ss
            ELSE [ss EXCEPT ![parsed.val.id] = parsed.val]

\* the body of forEach skipping a record that has expired
restoreOneUnexpired(ss, text) ==
    IF text = << >>
    THEN ss
    ELSE LET parsed == JSON_parse(text)
         IN IF ~parsed.ok \/ parsed.null \/ remainingTTL(parsed.val, now) <= 0
            THEN ss
            ELSE [ss EXCEPT ![parsed.val.id] = parsed.val]

\* lines 43-51 and 79-88: the body of forEach for one row or one raw value
restoreOne(ss, text) ==
    IF text = << >>
    THEN ss
    ELSE LET parsed == JSON_parse(text)
         IN IF ~parsed.ok \/ parsed.null
            THEN ss
            ELSE [ss EXCEPT ![parsed.val.id] = parsed.val]

\* forEach that stops at the first value that does not deserialize
RECURSIVE restoreAllAborting(_, _)
restoreAllAborting(ss, texts) ==
    IF texts = << >> THEN ss
    ELSE IF Head(texts) # << >> /\ ~JSON_parse(Head(texts)).ok
         THEN ss
         ELSE restoreAllAborting(restoreOne(ss, Head(texts)), Tail(texts))

RECURSIVE restoreAll(_, _)
restoreAll(ss, texts) ==
    IF texts = << >> THEN ss
    ELSE restoreAll(restoreOne(ss, Head(texts)), Tail(texts))

\* the orders in which SELECT value FROM sessions can return the rows
RowOrders ==
    LET keys == {id \in AllIds : db[id] # << >>}
    IN {o \in [1 .. Cardinality(keys) -> keys] :
           \A i, j \in DOMAIN o : i # j => o[i] # o[j]}

\* MGET: the value of each key, nil for a key that is gone or has expired
mget(keys) ==
    [i \in DOMAIN keys |->
        IF redis[keys[i]].exp > now THEN redis[keys[i]].value ELSE << >>]

\* lines 34-37 and 59-68: restore() up to its first await
RestoreStart ==
    /\ rst.pc = "idle"
    /\ rst' = [rst EXCEPT !.pc = IF useDB THEN "all"
                                 ELSE IF useRedis THEN "scan" ELSE "done"]
    /\ UNCHANGED << useDB, useRedis, now, sessions, persistTimeouts, timers,
                    nextSweep, db, redis, flushes, removes, calls, nUpserts,
                    nRemoves, advances >>

\* lines 37-68: the awaited db.all settles
RestoreAllSettles(ok) ==
    /\ rst.pc = "all"
    /\ IF ok
       THEN \E o \in RowOrders :
               /\ sessions' = restoreAll(sessions, [i \in DOMAIN o |-> db[o[i]]])
               /\ rst' = [rst EXCEPT !.pc = IF useRedis THEN "scan" ELSE "done"]
       ELSE /\ rst' = [rst EXCEPT !.pc = "rejected"]
            /\ UNCHANGED sessions
    /\ UNCHANGED << useDB, useRedis, now, persistTimeouts, timers, nextSweep,
                    db, redis, flushes, removes, calls, nUpserts, nRemoves,
                    advances >>

\* the scan with the loop of lines 67-72 left after its first round
RestoreScanSettlesOnce(ok) ==
    /\ rst.pc = "scan"
    /\ IF ok
       THEN LET keys == rst.keys \o (IF rst.pages = << >> THEN << >>
                                     ELSE rst.pages[rst.cursor + 1])
            IN rst' = [rst EXCEPT !.cursor = 0, !.keys = keys,
                          !.pc = IF Len(keys) > 0 THEN "mget" ELSE "done"]
       ELSE rst' = [rst EXCEPT !.pc = "rejected"]
    /\ UNCHANGED << useDB, useRedis, now, sessions, persistTimeouts, timers,
                    nextSweep, db, redis, flushes, removes, calls, nUpserts,
                    nRemoves, advances >>

\* lines 67-77: one awaited SCAN settles; the loop goes on until cursor '0'
RestoreScanSettles(ok) ==
    /\ rst.pc = "scan"
    /\ IF ok
       THEN LET last   == rst.cursor + 1 >= Len(rst.pages)
                cursor == IF last THEN 0 ELSE rst.cursor + 1
                keys   == rst.keys \o (IF rst.pages = << >> THEN << >>
                                       ELSE rst.pages[rst.cursor + 1])
            IN rst' = [rst EXCEPT !.cursor = cursor, !.keys = keys,
                          !.pc = IF cursor # 0 THEN "scan"
                                 ELSE IF Len(keys) > 0 THEN "mget" ELSE "done"]
       ELSE rst' = [rst EXCEPT !.pc = "rejected"]
    /\ UNCHANGED << useDB, useRedis, now, sessions, persistTimeouts, timers,
                    nextSweep, db, redis, flushes, removes, calls, nUpserts,
                    nRemoves, advances >>

\* lines 77-89: the awaited MGET settles
RestoreMgetSettles(ok) ==
    /\ rst.pc = "mget"
    /\ IF ok
       THEN /\ sessions' = restoreAll(sessions, mget(rst.keys))
            /\ rst' = [rst EXCEPT !.pc = "done"]
       ELSE /\ rst' = [rst EXCEPT !.pc = "rejected"]
            /\ UNCHANGED sessions
    /\ UNCHANGED << useDB, useRedis, now, persistTimeouts, timers, nextSweep,
                    db, redis, flushes, removes, calls, nUpserts, nRemoves,
                    advances >>

\* What the backends hold when the process starts.
Truncated == << Tok("{", "", 0), Tok("id", "a", 0) >>

StoredAt  == PersistDelay

\* texts of records written by an earlier run, and corrupted ones
RowTexts ==
    {JSON_stringify(Rec(id, e, 1)) : id \in AllIds, e \in {StoredAt, StoredAt + SweepInterval}}
        \cup {Truncated, NullText}

ValueTexts ==
    {JSON_stringify(Rec(id, StoredAt + SweepInterval, 2)) : id \in AllIds}
        \cup {Truncated, NullText}

MatchingKeys == {k \in KeySpace : getRedisKeyMatcher(k)}

\* the pages a SCAN can cut the set of keys into (a page may be empty)
ScanPlans(keys) ==
    LET one == {o \in [1 .. Cardinality(keys) -> keys] :
                   \A i, j \in DOMAIN o : i # j => o[i] # o[j]}
    IN {<< o >> : o \in one}
         \cup {<< << >>, o >> : o \in one}
         \cup {[i \in DOMAIN o |-> << o[i] >>] : o \in one}

InitRestore ==
    /\ useDB \in BOOLEAN
    /\ useRedis \in BOOLEAN
    /\ now = StoredAt
    /\ sessions = [id \in AllIds |-> Absent]
    /\ persistTimeouts = [id \in AllIds |-> 0]
    /\ timers = {}
    /\ nextSweep = SweepInterval
    /\ db \in [AllIds -> RowTexts \cup {<< >>}]
    /\ \E held \in [KeySpace -> ValueTexts \cup {<< >>}] :
          /\ \A k \in KeySpace \ MatchingKeys : held[k] \notin {Truncated, NullText}
          /\ redis = [k \in KeySpace |->
                        IF held[k] = << >> THEN NoEntry
                        ELSE [value |-> held[k], exp |-> StoredAt + SweepInterval]]
    /\ flushes = {}
    /\ removes = {}
    /\ calls = [id \in AllIds |-> NoCall]
    /\ nUpserts = 0
    /\ nRemoves = 0
    /\ advances = 0
    /\ \E plan \in ScanPlans({k \in MatchingKeys : redis[k] # NoEntry}) :
          rst = [IdleRestore EXCEPT !.pages = plan]

NextRestore ==
    \/ RestoreStart
    \/ \E ok \in BOOLEAN : RestoreAllSettles(ok)
    \/ \E ok \in BOOLEAN : RestoreScanSettles(ok)
    \/ \E ok \in BOOLEAN : RestoreMgetSettles(ok)

SpecRestore == InitRestore /\ [][NextRestore]_vars

Next ==
    \/ \E id \in Ids, ttl \in TTLs : Upsert(id, ttl)
    \/ \E t \in timers : TimerFires(t)
    \/ \E f \in flushes, ok \in BOOLEAN : PersistDbSettles(f, ok)
    \/ \E f \in flushes, ok \in BOOLEAN : PersistRedisSettles(f, ok)
    \/ \E id \in Ids : Remove(id)
    \/ \E r \in removes, ok \in BOOLEAN : RemoveDbSettles(r, ok)
    \/ \E r \in removes, ok \in BOOLEAN : RemoveRedisSettles(r, ok)
    \/ Sweep
    \/ \E d \in Steps : Advance(d)

Spec == Init /\ [][Next]_vars

\* The store with no backend enabled and two ids in use.
InitStore == Init /\ ~useDB /\ ~useRedis

NextStore ==
    \/ \E id \in AllIds, ttl \in TTLs : Upsert(id, ttl)
    \/ \E id \in AllIds : Remove(id)
    \/ Sweep
    \/ \E d \in Steps : Advance(d)

SpecStore == InitStore /\ [][NextStore]_vars

\* restore() and the sweeper.  The backends hold records that have expired
\* and records that have not; a key of the key/value backend can outlive the
\* expiresAt of its record (the PX of line 171 counts from the moment the SET
\* takes effect).  The sweeper was set up when the process started.
ExpiryTimes == {StoredAt, StoredAt + 2 * SweepInterval}

InitRestoreSweep ==
    /\ useDB \in BOOLEAN
    /\ useRedis \in BOOLEAN
    /\ now = StoredAt
    /\ sessions = [id \in AllIds |-> Absent]
    /\ persistTimeouts = [id \in AllIds |-> 0]
    /\ timers = {}
    /\ nextSweep = StoredAt + SweepInterval
    /\ db \in [AllIds -> {JSON_stringify(Rec(id, e, 1)) : id \in AllIds, e \in ExpiryTimes}
                            \cup {<< >>}]
    /\ \E e \in [AllIds -> ExpiryTimes \cup {0}] :
          redis = [k \in KeySpace |->
                     IF \E id \in AllIds : k = buildRedisKey(id) /\ e[id] # 0
                     THEN [value |-> JSON_stringify(Rec(k[3], e[k[3]], 2)),
                           exp |-> StoredAt + 2 * SweepInterval]
                     ELSE NoEntry]
    /\ flushes = {}
    /\ removes = {}
    /\ calls = [id \in AllIds |-> NoCall]
    /\ nUpserts = 0
    /\ nRemoves = 0
    /\ advances = 0
    /\ \E plan \in ScanPlans({k \in MatchingKeys : redis[k] # NoEntry}) :
          /\ Len(plan) = 1
          /\ rst = [IdleRestore EXCEPT !.pages = plan]

NextRestoreSweep ==
    \/ RestoreStart
    \/ \E ok \in BOOLEAN : RestoreAllSettles(ok)
    \/ \E ok \in BOOLEAN : RestoreScanSettles(ok)
    \/ \E ok \in BOOLEAN : RestoreMgetSettles(ok)
    \/ Sweep
    \/ \E d \in Steps : Advance(d)

SpecRestoreSweep == InitRestoreSweep /\ [][NextRestoreSweep]_vars

\* The timeouts with a backend enabled and two ids in use: the calls that
\* touch persistTimeouts and the timeouts (lines 113-117 and 128); the awaited
\* backend calls stay in flight.
InitTimers == Init /\ anyBackend

NextTimers ==
    \/ \E id \in AllIds, ttl \in TTLs : Upsert(id, ttl)
    \/ \E t \in timers : TimerFires(t)
    \/ \E d \in Steps : Advance(d)

SpecTimers == InitTimers /\ [][NextTimers]_vars

\* ================================================================ claims
\* the timeout t fires in this step
Fired(t) == t \in timers /\ t \notin timers' /\ nUpserts' = nUpserts

\* the handles of the runs of persist() in flight
Handles(fs) == {f.h : f \in fs}

\* a backend write for id is issued in this step
Issues(id) ==
    \E g \in flushes' :
        /\ g.id = id
        /\ \/ g.db = "pending" /\ g.h \notin Handles(flushes)
           \/ g.kv = "pending" /\ ~\E f \in flushes : f.h = g.h /\ f.kv = "pending"

\* the number of the upsert call whose record a stored text holds
Written(text) == JSON_parse(text).val.v

C1_State ==
    anyBackend =>
      /\ \A f, g \in flushes : f.h = g.h => f = g
      /\ \A id \in Ids :
            /\ calls[id].fired <= 1
            /\ calls[id].fired = 1 => calls[id].h = calls[id].last
            /\ (calls[id].last # 0 /\ calls[id].fired = 0)
                  => \E t \in timers : t.id = id /\ t.h = calls[id].last
            /\ \A f \in flushes :
                  (f.id = id /\ f.h >= calls[id].first) =>
                      /\ f.h = calls[id].last
                      /\ f.session.id = id
                      /\ f.session.v = calls[id].last
                      /\ useDB => f.db # "none"
                      /\ (useRedis /\ (~useDB \/ f.db \in {"ok", "failed"}))
                            => f.kv # "none"

C1_Step ==
    \A t \in timers :
        Fired(t) =>
            /\ now - t.set >= PersistDelay
            /\ IF sessions[t.id] # Absent /\ sessions[t.id].expiresAt > now
               THEN \E g \in flushes' :
                       /\ flushes' = flushes \cup {g}
                       /\ g.h = t.h
                       /\ g.h \notin Handles(flushes)
                       /\ g.session = sessions[t.id]
                       /\ g.session.v = t.h
                       /\ IF useDB THEN g.db = "pending" /\ g.kv = "none"
                                   ELSE g.db = "none" /\ g.kv = "pending"
               ELSE flushes' = flushes

\* C1: with a backend enabled, a burst of upserts of one id (each less than
\* the quiet period after the previous one) leads to exactly one flush of the
\* id: only the timeout of the last call fires, not before the quiet period
\* has passed since that call; if the record is then present and unexpired the
\* flush issues one write to each enabled backend, carrying the record of the
\* last call, and otherwise none.
C1_OneFlushPerBurst == [](C1_State) /\ [][C1_Step]_vars

C1_Witness ==
    /\ useDB /\ useRedis
    /\ \E id \in Ids :
          /\ calls[id].first < calls[id].last
          /\ calls[id].fired = 1
          /\ calls[id].outcome = "write"
          /\ sessions[id].v = calls[id].last
          /\ db[id] = JSON_stringify(sessions[id])
          /\ redis[buildRedisKey(id)].value = JSON_stringify(sessions[id])

\* C2: findById(id) right after upsert(r), r.id = id, returns exactly r, in
\* every state the call can be made in.
C2_UpsertThenFind ==
    [][\A id \in Ids, ttl \in TTLs :
          Upsert(id, ttl) => findById(id)' = Rec(id, now + ttl, nUpserts + 1)]_vars

C2_Witness ==
    \E id \in Ids :
        /\ nUpserts > 1
        /\ findById(id).v = nUpserts
        /\ persistTimeouts[id] = nUpserts
        /\ \E f \in flushes : f.id = id /\ f.result = "pending"

\* C3: once remove(id) was called in the quiet period of the last upsert of
\* id, and id was not upserted since, no backend write for id is issued.
C3_NoWriteAfterRemove ==
    [][\A id \in Ids : calls[id].removed => ~Issues(id)]_vars

C4_State ==
    \A id \in Ids :
        calls[id].outcome = "expired" =>
            /\ \A f \in flushes : f.session.v # calls[id].h
            /\ Written(db[id]) # calls[id].h
            /\ Written(redis[buildRedisKey(id)].value) # calls[id].h

C4_Step ==
    \A t \in timers :
        (Fired(t) /\ sessions[t.id] # Absent /\ sessions[t.id].expiresAt <= now)
            => flushes' = flushes /\ db' = db /\ redis' = redis

\* C4: a record whose expiresAt is not after the time at which its flush
\* fires is never written to a backend: that flush issues nothing, no other
\* flush carries the record, and no backend comes to hold it.
C4_ExpiredNeverWritten == [](C4_State) /\ [][C4_Step]_vars

C4_Witness ==
    \E id \in Ids :
        /\ calls[id].outcome = "expired"
        /\ sessions[id] # Absent
        /\ sessions[id].v = calls[id].h
        /\ sessions[id].expiresAt = now
        /\ sessions[id].expiresAt > PersistDelay

\* C5: a backend that holds a value for an id never comes to hold an older
\* one (last-write-wins per id), however the backend calls settle.
C5_LastWriteWins ==
    [][\A id \in Ids :
          /\ (db[id] # << >> /\ db'[id] # << >>)
                => Written(db'[id]) >= Written(db[id])
          /\ (redis[buildRedisKey(id)] # NoEntry /\ redis'[buildRedisKey(id)] # NoEntry)
                => Written(redis'[buildRedisKey(id)].value)
                      >= Written(redis[buildRedisKey(id)].value)]_vars

\* C6: a sweeper tick at time now removes exactly the records with
\* expiresAt <= now and leaves the others as they are.
C6_SweepExact ==
    [][nextSweep' # nextSweep =>
          \A id \in AllIds :
              sessions'[id] = IF sessions[id] # Absent /\ sessions[id].expiresAt > now
                              THEN sessions[id] ELSE Absent]_vars

C6_Witness ==
    /\ nextSweep > SweepInterval
    /\ nRemoves = 0
    /\ \E a, b \in AllIds :
          /\ calls[a].last # 0
          /\ sessions[a] = Absent
          /\ sessions[b] # Absent
          /\ sessions[b].v < calls[a].last

Deserializes(text) ==
    text # << >> /\ JSON_parse(text).ok /\ ~JSON_parse(text).null

\* the records an enabled backend holds under a text that deserializes
Restorable ==
    {JSON_parse(db[k]).val : k \in {k \in AllIds : useDB /\ Deserializes(db[k])}}
      \cup {JSON_parse(redis[k].value).val :
              k \in {k \in MatchingKeys :
                        useRedis /\ redis[k].exp > now /\ Deserializes(redis[k].value)}}

\* C7: after restore() on an empty store, the store holds, under each id, a
\* record of that id that deserializes from an enabled backend, and no entry
\* for an id no such record has: entries that do not deserialize are skipped
\* one by one.
C7_RestoreSkipsMalformed ==
    rst.pc = "done" =>
      \A id \in AllIds :
        IF \E r \in Restorable : r.id = id
        THEN sessions[id] \in {r \in Restorable : r.id = id}
        ELSE sessions[id] = Absent

C7_Witness ==
    /\ rst.pc = "done"
    /\ useDB /\ useRedis
    /\ \E k \in AllIds : Deserializes(db[k])
    /\ \E k \in AllIds : db[k] # << >> /\ ~Deserializes(db[k])
    /\ \E k \in MatchingKeys :
          /\ Deserializes(redis[k].value)
          /\ \A j \in AllIds : Deserializes(db[j])
                => JSON_parse(db[j]).val.id # JSON_parse(redis[k].value).val.id
    /\ \A id \in AllIds : sessions[id] # Absent

\* C8: with both backends enabled, a remove whose relational delete failed
\* has still issued the key/value delete.
C8_DeleteOnEveryBackend ==
    \A r \in removes :
        (useDB /\ useRedis /\ r.db = "failed") => r.kv # "none"

\* C9: remove(id) never ends in an error, whatever the backend deletes do.
C9_RemoveNeverRejects ==
    \A r \in removes : r.result # "rejected"

C10_State ==
    \A f \in flushes :
        /\ f.result # "rejected"
        /\ f.db = "failed" => useRedis /\ f.kv = "pending"

C10_Step ==
    \A f \in flushes :
        /\ \A g \in flushes' :
              g.h = f.h =>
                  /\ f.db # "pending" => g.db = f.db
                  /\ g.kv = "pending" => (f.kv = "pending" \/ f.db = "pending")
        /\ (PersistDbSettles(f, FALSE) \/ PersistRedisSettles(f, FALSE)) =>
              /\ sessions' = sessions
              /\ persistTimeouts' = persistTimeouts
              /\ timers' = timers
              /\ db' = db
              /\ redis' = redis
              /\ Handles(flushes') \subseteq Handles(flushes)
              /\ (f.db = "pending" /\ useRedis) =>
                    \E g \in flushes' : g.h = f.h /\ g.db = "failed" /\ g.kv = "pending"

\* C10: a backend write that fails during a flush is swallowed: the flush
\* never ends in an error, the failed write is not issued again, the step in
\* which it fails changes neither the sessions, the pending timeouts nor a
\* backend, and after a failed relational write the key/value write is issued.
C10_FlushFailureSwallowed == [](C10_State) /\ [][C10_Step]_vars

C10_Witness ==
    /\ \E f \in flushes : f.db = "failed" /\ f.kv = "pending"
    /\ \E id \in Ids : sessions[id] # Absent /\ persistTimeouts[id] # 0

C11_State ==
    (~useDB /\ ~useRedis) =>
        /\ timers = {}
        /\ persistTimeouts = [id \in AllIds |-> 0]
        /\ flushes = {}
        /\ removes = {}
        /\ db = [id \in AllIds |-> << >>]
        /\ redis = [k \in KeySpace |-> NoEntry]

C11_Step ==
    (~useDB /\ ~useRedis) =>
        /\ \A id \in Ids, ttl \in TTLs :
              Upsert(id, ttl) =>
                  /\ sessions' = [sessions EXCEPT ![id] = Rec(id, now + ttl, nUpserts + 1)]
                  /\ UNCHANGED << persistTimeouts, timers, flushes, removes, db, redis >>
        /\ \A id \in Ids :
              Remove(id) =>
                  /\ sessions' = [sessions EXCEPT ![id] = Absent]
                  /\ UNCHANGED << persistTimeouts, timers, flushes, removes, db, redis >>

\* C11: with no backend enabled, upsert changes the sessions only: it sets no
\* timeout and leaves persistTimeouts alone, so no run of persist starts and
\* no backend write is ever issued; remove changes the sessions only and
\* issues no backend delete.
C11_NoBackendNoPersistence == [](C11_State) /\ [][C11_Step]_vars

C11_Witness ==
    /\ ~useDB /\ ~useRedis
    /\ nUpserts = MaxUpserts
    /\ nRemoves > 0
    /\ now > PersistDelay
    /\ \E id \in Ids : sessions[id] # Absent

\* a backend call of persist or of remove is awaited
IoInFlight ==
    \/ \E f \in flushes : f.db = "pending" \/ f.kv = "pending"
    \/ \E r \in removes : r.db = "pending" \/ r.kv = "pending"

C12_State ==
    IoInFlight =>
        /\ nUpserts < MaxUpserts => \A id \in Ids : ENABLED (\E ttl \in TTLs : Upsert(id, ttl))
        /\ nRemoves < MaxRemoves => \A id \in Ids : ENABLED Remove(id)
        /\ now >= nextSweep => ENABLED Sweep

C12_Step ==
    /\ \A id \in Ids, ttl \in TTLs :
          Upsert(id, ttl) =>
              /\ findById(id)' = Rec(id, now + ttl, nUpserts + 1)
              /\ flushes' = flushes /\ removes' = removes
    /\ \A id \in Ids :
          Remove(id) =>
              /\ findById(id)' = Absent
              /\ flushes' = flushes
              /\ \A r \in removes' \ removes :
                    /\ r.id = id
                    /\ r.db = (IF useDB THEN "pending" ELSE "none")
                    /\ r.kv = (IF ~useDB /\ useRedis THEN "pending" ELSE "none")
    /\ (now' = now /\ nextSweep' # nextSweep) =>
          /\ sessions' = pickBy(sessions, now)
          /\ flushes' = flushes /\ removes' = removes

\* C12: the memory effect of upsert, of remove and of the sweeper happens in
\* the step of the call, whatever backend calls are awaited, failed or never
\* settle: right after remove(id), findById(id) is absent while the deletes
\* of that call are only issued; and an awaited backend call never disables a
\* later upsert, remove or sweeper tick.
C12_MemoryNeverWaits == [](C12_State) /\ [][C12_Step]_vars

C12_Witness ==
    /\ \E r \in removes : r.db = "pending" /\ findById(r.id) = Absent
    /\ \E f \in flushes : f.db = "pending"
    /\ nUpserts > 1

\* the relational backend holds a record of id that has not expired
DbLive(id) ==
    useDB /\ db[id] # << >> /\ JSON_parse(db[id]).val.expiresAt > now

\* the key/value backend holds a record of id under a key that has not expired
RedisLive(id) ==
    useRedis /\ redis[buildRedisKey(id)] # NoEntry /\ redis[buildRedisKey(id)].exp > now

\* C13: when no write of an id is pending in its quiet period, a record of
\* the id that a backend holds as live is present in the sessions.
C13_StoreCoversBackends ==
    \A id \in Ids :
        (persistTimeouts[id] = 0 /\ (DbLive(id) \/ RedisLive(id)))
            => findById(id) # Absent

\* C14: each id has at most one scheduled timeout, persistTimeouts holds its
\* handle, and persistTimeouts holds no handle of a timeout that is not
\* scheduled: a timeout cancelled by a later upsert is gone and cannot fire.
C14_OneTimerPerId ==
    /\ \A t, u \in timers : t.id = u.id => t = u
    /\ \A t \in timers : persistTimeouts[t.id] = t.h
    /\ \A id \in AllIds :
          persistTimeouts[id] # 0 => \E t \in timers : t.id = id /\ t.h = persistTimeouts[id]

C14_Witness ==
    \E t, u \in timers :
        /\ t.id # u.id
        /\ Cardinality(timers) = 2
        /\ persistTimeouts[t.id] = t.h
        /\ persistTimeouts[u.id] = u.h
        /\ t.set < u.set

C15_State ==
    \A id \in Ids :
        ( /\ calls[id].gone
          /\ \A f \in flushes : f.id # id
          /\ \A r \in removes : r.id # id )
        => /\ useDB => db[id] = << >>
           /\ useRedis => redis[buildRedisKey(id)] = NoEntry

C15_Step ==
    \A id \in Ids : calls[id].gone => ~Issues(id)

\* C15: once remove(id) was called and id was not upserted since, no backend
\* write for id is issued, and when no run of persist for id is in flight and
\* every remove of id has resolved, no enabled backend holds a record of id.
C15_NeverResurrected == [](C15_State) /\ [][C15_Step]_vars

\* the key/value write of the run g of persist is issued in this step
IssuesSet(g) ==
    /\ g \in flushes'
    /\ g.kv = "pending"
    /\ ~\E f \in flushes : f.h = g.h /\ f.kv = "pending"

\* C16: the expiry a key/value write carries is positive and is the record's
\* expiresAt minus the time at which the write is issued, also when the
\* relational write of the same flush was awaited before.
C16_ExpiryIsRemainingTTL ==
    [][\A g \in flushes' :
          IssuesSet(g) => g.ttl > 0 /\ g.ttl = remainingTTL(g.session, now)]_vars

C17_State ==
    \A t \in timers :
        (now >= t.due /\ \E f \in flushes : f.id = t.id) => ENABLED TimerFires(t)

C17_Step ==
    /\ \A t \in timers :
          Fired(t) =>
              /\ persistTimeouts' = [persistTimeouts EXCEPT ![t.id] = 0]
              /\ timers' = timers \ {t}
              /\ \A g \in flushes' \ flushes : g.h = t.h /\ g.session = sessions[t.id]
    /\ (nUpserts' = nUpserts /\ \A t \in timers : ~Fired(t))
          => timers' = timers /\ persistTimeouts' = persistTimeouts
    /\ (nUpserts' # nUpserts /\ flushes # {}) =>
          /\ flushes' = flushes
          /\ \E t \in timers' \ timers :
                /\ t.h = nUpserts + 1
                /\ t.due = now + PersistDelay
                /\ persistTimeouts'[t.id] = t.h

\* C17: a timeout that fires deletes its handle from persistTimeouts in the
\* step in which it starts its backend I/O and writes the record the sessions
\* hold then; an upsert while that I/O is in flight schedules a new timeout;
\* no step of a run of persist in flight cancels or unregisters a timeout;
\* and a timeout that is due while a run of persist is in flight can fire.
C17_FlushLeavesNewTimerAlone == [](C17_State) /\ [][C17_Step]_vars

C17_Witness ==
    \E f, g \in flushes :
        /\ f.id = g.id
        /\ f.h < g.h
        /\ f.result = "pending"
        /\ g.session = sessions[g.id]
        /\ g.session.v = g.h
        /\ persistTimeouts[g.id] = 0

\* the records of id the relational backend holds under a text that deserializes
DbRecords(id) ==
    {r \in {JSON_parse(db[k]).val : k \in {k \in AllIds : Deserializes(db[k])}} : r.id = id}

\* the records of id the key/value backend holds under a matching, live key
RedisRecords(id) ==
    {r \in {JSON_parse(redis[k].value).val :
              k \in {k \in MatchingKeys :
                        redis[k].exp > now /\ Deserializes(redis[k].value)}} : r.id = id}

\* C18: with both backends enabled, the relational rows are all loaded before
\* the first key of the key/value backend is, and when restore() completes an
\* id of which the key/value backend holds a record has that backend's record
\* in the sessions, whatever the relational backend holds for it.
C18_KeyValueLoadedLast ==
    (useDB /\ useRedis) =>
        \A id \in AllIds :
            /\ (rst.pc \in {"scan", "mget"} /\ DbRecords(id) # {})
                  => sessions[id] \in DbRecords(id)
            /\ (rst.pc = "done" /\ RedisRecords(id) # {})
                  => sessions[id] \in RedisRecords(id)

C18_Witness ==
    /\ useDB /\ useRedis
    /\ rst.pc = "done"
    /\ \E id \in AllIds :
          /\ DbRecords(id) # {}
          /\ RedisRecords(id) # {}
          /\ sessions[id] \in RedisRecords(id)
          /\ sessions[id] \notin DbRecords(id)

C19_Step ==
    /\ (rst.pc = "all" /\ rst'.pc \in {"scan", "done"}) =>
          \A id \in AllIds : DbRecords(id) # {} => findById(id)' \in DbRecords(id)
    /\ (rst.pc = "mget" /\ rst'.pc = "done") =>
          \A id \in AllIds : RedisRecords(id) # {} => findById(id)' \in RedisRecords(id)
    /\ (now' = now /\ nextSweep' # nextSweep) =>
          \A id \in AllIds :
              findById(id)' = IF findById(id) # Absent /\ findById(id).expiresAt > now
                              THEN findById(id) ELSE Absent
    /\ (rst' = rst /\ nextSweep' = nextSweep) => sessions' = sessions

\* C19: restore() puts every record it deserializes into the sessions, also
\* one whose expiresAt is not after the current time; the record stays
\* visible to findById until a sweeper tick, and the tick removes it.
C19_RestoreKeepsExpired == [][C19_Step]_vars

C19_Witness ==
    /\ useDB /\ useRedis
    /\ rst.pc = "done"
    /\ nextSweep > StoredAt + SweepInterval
    /\ \E a, b \in AllIds :
          /\ findById(a) = Absent
          /\ \E r \in DbRecords(a) \cup RedisRecords(a) : r.expiresAt <= StoredAt
          /\ findById(b) # Absent
          /\ findById(b).v = 2

\* the keys of all pages, in the order of the pages
RECURSIVE Flatten(_)
Flatten(pages) ==
    IF pages = << >> THEN << >> ELSE Head(pages) \o Flatten(Tail(pages))

\* the number of awaited calls restore() has at most still to make
Rank(r) ==
    CASE r.pc = "idle" -> Len(r.pages) + 5
      [] r.pc = "all"  -> Len(r.pages) + 4
      [] r.pc = "scan" -> (Len(r.pages) - r.cursor) + 2
      [] r.pc = "mget" -> 1
      [] OTHER         -> 0

C20_State ==
    /\ rst.pc \in {"idle", "all"} => rst.cursor = 0 /\ rst.keys = << >>
    /\ rst.pc = "scan" =>
          /\ rst.cursor < Len(rst.pages) \/ rst.cursor = 0
          /\ rst.keys = Flatten(SubSeq(rst.pages, 1, rst.cursor))
    /\ (useRedis /\ rst.pc \in {"mget", "done"}) =>
          /\ rst.cursor = 0
          /\ rst.keys = Flatten(rst.pages)
    /\ rst.pc = "mget" => Len(rst.keys) > 0
    /\ rst.pc \notin {"done", "rejected"} => ENABLED NextRestore

C20_Step ==
    /\ Rank(rst') < Rank(rst)
    /\ (useRedis /\ rst.pc \in {"idle", "all"}) => rst'.pc \notin {"mget", "done"}
    /\ rst'.pc = "mget" => rst.pc = "scan"
    /\ (rst.pc = "scan" /\ rst'.pc # "rejected") =>
          /\ rst'.keys = rst.keys \o (IF rst.pages = << >> THEN << >>
                                      ELSE rst.pages[rst.cursor + 1])
          /\ rst'.pc = "scan" <=> rst'.cursor # 0
          /\ rst'.cursor # 0 => rst'.cursor = rst.cursor + 1
          /\ rst'.pc = "done" <=> (rst'.cursor = 0 /\ rst'.keys = << >>)
          /\ sessions' = sessions
    /\ (rst.pc = "mget" /\ rst'.pc = "done") =>
          sessions' = restoreAll(sessions, mget(rst.keys))

\* C20: the scan starts at cursor 0 with no keys, every SCAN that settles
\* adds the keys of one page, the loop goes on exactly while the cursor
\* returned is not 0, so at least one SCAN is issued; then all keys of all
\* pages are fetched by one MGET, or by none when there is no key; and every
\* awaited call that settles brings restore() nearer to its end.
C20_ScanAllPagesThenMget == [](C20_State) /\ [][C20_Step]_vars

C20_Witness ==
    /\ rst.pc = "done"
    /\ Len(rst.pages) = 2
    /\ Len(rst.keys) = 2
    /\ \A id \in AllIds : findById(id).v = 2

====
